---- MODULE Spec2Model ----
(***************************************************************************)
(* Model of the return-computation core of profit_analyzer:                *)
(*   PortfolioBuilder.build_positions / cash_flows  (portfolio_builder.py) *)
(*   build_equity_curve                             (main.py)              *)
(*   ProfitCalculator.compute_time_weighted / compute_money_weighted /     *)
(*   _irr                                           (profit_calculator.py) *)
(*                                                                         *)
(* A calendar date is an integer day number.  A datetime is a record       *)
(* [date, tod] (day number and time of day).  A pandas Series is a         *)
(* sequence of records [date, value] in index order.  A float that may be  *)
(* NaN is a sequence of length <= 1: <<>> is NaN, <<v>> is the number v.   *)
(***************************************************************************)
EXTENDS Integers, Sequences, FiniteSets

VARIABLES
    pc,         \* position of the run: which function was applied last
    trades,     \* the parsed trade table (rows in datetime order)
    px,         \* the price provider's answers, per symbol: date -> close
    positions,  \* result of PortfolioBuilder.build_positions
    cashflows,  \* result of PortfolioBuilder.cash_flows / the MWR input series
    pos,        \* build_equity_curve's per-(date, symbol) position frame
    path,       \* which path build_equity_curve took: "none", "fallback", "priced"
    equity,     \* the equity curve (build_equity_curve's result / the TWR input)
    terminal,   \* terminal_value handed to compute_money_weighted
    twr,        \* result of compute_time_weighted
    mwr,        \* result of compute_money_weighted (with the solver's trace)
    exc,        \* "none", or the name of the exception that ended the call
    last,       \* per core function, the arguments and result of its last call
    raw,        \* the order file handed to WebullParser.parse: columns and rows
    columns     \* the columns of the parsed trades table

vars == <<pc, trades, px, positions, cashflows, pos, path, equity, terminal,
          twr, mwr, exc, last, raw, columns>>

-----------------------------------------------------------------------------
Min(S) == CHOOSE x \in S : \A y \in S : x <= y

Max(S) == CHOOSE x \in S : \A y \in S : x >= y

-----------------------------------------------------------------------------
(* Bounds of the model *)

MaxTrades == 3

SymbolSet == {"A", "B"}

\* Calendar of the model; the last day is pd.Timestamp.today().
Dates == {1, 2, 3}

\* The sets of days a symbol may be quoted on: never (not priceable), every
\* day, from the second day on, on the first and the last day only, and on
\* every day but today (a provider whose end date is exclusive).
QuoteDays ==
    {{}, Dates, Dates \ {Min(Dates)}, {Min(Dates), Max(Dates)}, Dates \ {Max(Dates)}}

\* (qty, cash_flow) of a row: a buy has qty > 0 and cash_flow < 0, a sell the
\* opposite (webull_parser.py 76-82).
Fills == {[qty |-> 2, cash_flow |-> -5], [qty |-> -1, cash_flow |-> 3]}

-----------------------------------------------------------------------------
(* Generic helpers *)

Abs(x) == IF x < 0 THEN -x ELSE x

RECURSIVE SumOver(_, _)
\* Sum of f[i] for i in the finite set I.
SumOver(f, I) ==
    IF I = {} THEN 0
    ELSE LET i == CHOOSE j \in I : TRUE IN f[i] + SumOver(f, I \ {i})

RECURSIVE SortedSeq(_)
\* sorted(set): the elements of S in ascending order.
SortedSeq(S) ==
    IF S = {} THEN <<>>
    ELSE LET m == Min(S) IN <<m>> \o SortedSeq(S \ {m})

NaN == <<>>

Num(v) == <<v>>

IsNaN(x) == x = <<>>

-----------------------------------------------------------------------------
(* Dates and the trade table *)

Today == Max(Dates)

\* pd.to_datetime(...).dt.date: the calendar date of a datetime, time dropped.
DateOf(dt) == dt.date

\* pd.to_datetime(date): the datetime at midnight of a calendar date.
ToDatetime(d) == [date |-> d, tod |-> 0]

\* t['date'] of row i.
RowDate(t, i) == DateOf(t[i].datetime)

EventDates(t) == {RowDate(t, i) : i \in DOMAIN t}

\* t['symbol'].unique()
SymbolsOf(t) == {t[i].symbol : i \in DOMAIN t}

-----------------------------------------------------------------------------
(* PortfolioBuilder (portfolio_builder.py) *)

\* Mutants of GroupCumSum: a cumsum that ignores the grouping by symbol, and
\* one that carries nothing over from the earlier rows.
GroupCumSum_Ungrouped(t, i) == SumOver([j \in DOMAIN t |-> t[j].qty], 1..i)

GroupCumSum_NoCarry(t, i) == t[i].qty

RECURSIVE GroupCumSum(_, _)
\* trades.groupby('symbol')['qty'].cumsum() at row i: the running total of qty
\* over the rows of row i's symbol, in row order.
GroupCumSum(t, i) ==
    LET prev == {j \in 1..(i - 1) : t[j].symbol = t[i].symbol}
    IN  t[i].qty + (IF prev = {} THEN 0 ELSE GroupCumSum(t, Max(prev)))

\* build_positions: the table with a 'position' column added.
build_positions(t) ==
    [i \in DOMAIN t |->
        [datetime |-> t[i].datetime, symbol |-> t[i].symbol, qty |-> t[i].qty,
         cash_flow |-> t[i].cash_flow, position |-> GroupCumSum(t, i)]]

\* Mutant of GroupKey: grouping by the datetime instead of the date.
GroupKey_Datetime(t, i) == t[i].datetime.date * 100 + t[i].datetime.tod

\* The key a row is grouped under by groupby('date').
GroupKey(t, i) == RowDate(t, i)

\* Mutant of GroupSumByDate: the sums are added into a table that outlives
\* the call, so a second call starts from the sums of the first.
GroupSumByDate_Accumulating(t) ==
    LET keys == SortedSeq({GroupKey(t, i) : i \in DOMAIN t})
        kept == IF last["cash_flows"] = <<>> THEN <<>> ELSE last["cash_flows"][1].out
    IN  [k \in DOMAIN keys |->
            [date  |-> keys[k],
             value |-> SumOver([j \in DOMAIN kept |->
                                   IF kept[j].date.date = keys[k]
                                   THEN kept[j].value ELSE 0], DOMAIN kept)
                       + SumOver([i \in DOMAIN t |->
                                     IF GroupKey(t, i) = keys[k]
                                     THEN t[i].cash_flow ELSE 0], DOMAIN t)]]

\* groupby('date')['cash_flow'].sum(): one entry per group key, keys ascending
\* (groupby sorts its keys), the value the sum of cash_flow over the group.
GroupSumByDate(t) ==
    LET keys == SortedSeq({GroupKey(t, i) : i \in DOMAIN t})
    IN  [k \in DOMAIN keys |->
            [date  |-> keys[k],
             value |-> SumOver([i \in DOMAIN t |->
                                   IF GroupKey(t, i) = keys[k]
                                   THEN t[i].cash_flow ELSE 0], DOMAIN t)]]

\* cash_flows: the per-day sums with the date column converted by pd.to_datetime.
cash_flows(t) ==
    LET g == GroupSumByDate(t)
    IN  [k \in DOMAIN g |-> [date |-> ToDatetime(g[k].date), value |-> g[k].value]]

-----------------------------------------------------------------------------
(* Frames: a DataFrame indexed by date with one column per symbol is a     *)
(* record [index, cols, data]: index a sequence of dates, cols a set of    *)
(* symbols, data[k][s] the cell of row k and column s (NaN or a number).   *)

EmptyFrame == [index |-> <<>>, cols |-> {}, data |-> <<>>]

RECURSIVE FfillCell(_, _, _)
\* The cell after ffill(): the last non-NaN cell at or above row k.
FfillCell(F, k, s) ==
    IF ~IsNaN(F.data[k][s]) \/ k = 1 THEN F.data[k][s]
    ELSE FfillCell(F, k - 1, s)

Ffill(F) ==
    [F EXCEPT !.data = [k \in DOMAIN F.index |->
                           [s \in F.cols |-> FfillCell(F, k, s)]]]

\* fillna(0.0)
FillNa0(F) ==
    [F EXCEPT !.data = [k \in DOMAIN F.index |->
                           [s \in F.cols |->
                               IF IsNaN(F.data[k][s]) THEN Num(0) ELSE F.data[k][s]]]]

\* reindex(idx): the rows of F at the dates of idx, NaN rows where F has none.
Reindex(F, idx) ==
    [index |-> idx,
     cols  |-> F.cols,
     data  |-> [k \in DOMAIN idx |->
                   [s \in F.cols |->
                       LET at == {j \in DOMAIN F.index : F.index[j] = idx[k]}
                       IN  IF at = {} THEN NaN
                           ELSE F.data[CHOOSE j \in at : TRUE][s]]]]

\* Mutant of Mul: a missing price counted as 1 instead of NaN.
Mul_MissingAsOne(P, Q) ==
    [index |-> P.index,
     cols  |-> P.cols \cup Q.cols,
     data  |-> [k \in DOMAIN P.index |->
                   [s \in P.cols \cup Q.cols |->
                       IF s \in P.cols /\ ~IsNaN(P.data[k][s])
                       THEN IF s \in Q.cols /\ ~IsNaN(Q.data[k][s])
                            THEN Num(P.data[k][s][1] * Q.data[k][s][1])
                            ELSE P.data[k][s]
                       ELSE NaN]]]

\* pos * price_pivot on frames with one index: columns are aligned by name,
\* a column only one side has is all NaN, and NaN times anything is NaN.
Mul(P, Q) ==
    [index |-> P.index,
     cols  |-> P.cols \cup Q.cols,
     data  |-> [k \in DOMAIN P.index |->
                   [s \in P.cols \cup Q.cols |->
                       IF s \in P.cols /\ s \in Q.cols
                          /\ ~IsNaN(P.data[k][s]) /\ ~IsNaN(Q.data[k][s])
                       THEN Num(P.data[k][s][1] * Q.data[k][s][1])
                       ELSE NaN]]]

\* .sum(axis=1): the sum of each row, NaN cells skipped.
SumAxis1(F) ==
    [k \in DOMAIN F.index |->
        SumOver([s \in F.cols |->
                    IF IsNaN(F.data[k][s]) THEN 0 ELSE F.data[k][s][1]], F.cols)]

\* Mutant of CumSum: the running total without the entry itself.
CumSum_Exclusive(s) ==
    [k \in DOMAIN s |->
        [date |-> s[k].date,
         value |-> SumOver([j \in DOMAIN s |-> s[j].value], 1..(k - 1))]]

\* cumsum() of a series.
CumSum(s) ==
    [k \in DOMAIN s |->
        [date |-> s[k].date,
         value |-> SumOver([j \in DOMAIN s |-> s[j].value], 1..k)]]

-----------------------------------------------------------------------------
(* build_equity_curve (main.py) *)

\* The market's daily closes; which days a symbol is quoted on is px's domain.
Close == [s \in SymbolSet |-> IF s = "A" THEN <<2, 3, 5, 4>> ELSE <<7, 4, 6, 9>>]

\* Mutant of History: the requested range ignored.
History_Unbounded(quotes, sym, start, end) == quotes[sym]

\* price_provider.history(sym, start, end): the closes of sym dated in
\* [start, end]; empty when the symbol is not priceable.
History(quotes, sym, start, end) ==
    [d \in {x \in DOMAIN quotes[sym] : start <= x /\ x <= end} |-> quotes[sym][d]]

\* The symbols whose frame is appended to `frames` (lines 25-34): those whose
\* history is not empty.
Priced(quotes, t) ==
    {s \in SymbolsOf(t) :
        DOMAIN History(quotes, s, Min(EventDates(t)), Today) # {}}

\* t.groupby(['date','symbol'])['position'].last().unstack().sort_index():
\* rows are the event dates ascending, one column per symbol, the cell the
\* position of the last row of that date and symbol, NaN where there is none.
PositionLast(t) ==
    LET idx == SortedSeq(EventDates(t))
    IN  [index |-> idx,
         cols  |-> SymbolsOf(t),
         data  |-> [k \in DOMAIN idx |->
                       [s \in SymbolsOf(t) |->
                           LET rows == {i \in DOMAIN t :
                                           RowDate(t, i) = idx[k] /\ t[i].symbol = s}
                           IN  IF rows = {} THEN NaN
                               ELSE Num(GroupCumSum(t, Max(rows)))]]]

\* prices.pivot(index='date', columns='symbol', values='price').sort_index()
\* of the concatenated frames.
PricePivot(quotes, t) ==
    LET start == Min(EventDates(t))
        syms  == Priced(quotes, t)
        hist  == [s \in syms |-> History(quotes, s, start, Today)]
        idx   == SortedSeq(UNION {DOMAIN hist[s] : s \in syms})
    IN  [index |-> idx,
         cols  |-> syms,
         data  |-> [k \in DOMAIN idx |->
                       [s \in syms |->
                           IF idx[k] \in DOMAIN hist[s] THEN Num(hist[s][idx[k]])
                           ELSE NaN]]]

\* The unified index: sorted(set(pos.index) | set(price_pivot.index)).
UnifiedIndex(P, Q) ==
    SortedSeq({P.index[k] : k \in DOMAIN P.index}
              \cup {Q.index[k] : k \in DOMAIN Q.index})

\* pos after lines 53-54 and 59: forward-filled, zero before the first event.
AlignedPositions(P, idx) == FillNa0(Ffill(Reindex(FillNa0(Ffill(P)), idx)))

\* Mutant of AlignedPrices: no forward fill of the closes.
AlignedPrices_NoFfill(Q, idx) == Reindex(Q, idx)

\* price_pivot after lines 55 and 60: forward-filled, NaN before the first quote.
AlignedPrices(Q, idx) == Ffill(Reindex(Ffill(Q), idx))

\* The cash-only fallback (lines 36-41).
FallbackEquity(t) ==
    LET c == CumSum(GroupSumByDate(t))
    IN  [k \in DOMAIN c |-> [date |-> ToDatetime(c[k].date), value |-> c[k].value]]

\* The mark-to-market path (lines 43-66), given the aligned frames.
PricedEquity(P, Q, idx) ==
    LET tot == SumAxis1(Mul(P, Q))
    IN  [k \in DOMAIN idx |-> [date |-> ToDatetime(idx[k]), value |-> tot[k]]]

\* build_equity_curve: the path taken, the aligned position frame (the priced
\* path's local `pos`) and the series returned.
build_equity_curve(quotes, t) ==
    IF t = <<>>
    THEN \* min(t['date']) of line 22: min() of an empty sequence
         [path |-> "none", pos |-> EmptyFrame, equity |-> <<>>, exc |-> "ValueError"]
    ELSE IF Priced(quotes, t) = {}
    THEN [path |-> "fallback", pos |-> EmptyFrame, equity |-> FallbackEquity(t),
          exc |-> "none"]
    ELSE LET P0  == PositionLast(t)
             Q0  == PricePivot(quotes, t)
             idx == UnifiedIndex(P0, Q0)
             P   == AlignedPositions(P0, idx)
             Q   == AlignedPrices(Q0, idx)
         IN  [path |-> "priced", pos |-> P, equity |-> PricedEquity(P, Q, idx),
              exc |-> "none"]

-----------------------------------------------------------------------------
(* Floats of the return calculator.  A float is a record: a finite value   *)
(* is the exact fraction n/d in lowest terms with d > 0 (rounding is not   *)
(* modelled), and inf, -inf and nan are IEEE 754's.                        *)

RECURSIVE Gcd(_, _)
Gcd(a, b) == IF b = 0 THEN a ELSE Gcd(b, a % b)

Fin(n, d) ==
    LET g == Gcd(Abs(n), Abs(d))
        sg == IF d < 0 THEN -1 ELSE 1
    IN  [k |-> "fin", n |-> sg * (n \div g), d |-> sg * (d \div g)]

Inf == [k |-> "inf"]

NegInf == [k |-> "ninf"]

FNaN == [k |-> "nan"]

IsFinite(x) == x.k = "fin"

Sign(x) ==
    IF x.k = "inf" THEN 1
    ELSE IF x.k = "ninf" THEN -1
    ELSE IF x.n > 0 THEN 1 ELSE IF x.n < 0 THEN -1 ELSE 0

\* x / y: a non-zero value over zero is an infinity, zero over zero is nan.
FDiv(x, y) ==
    IF x.k = "nan" \/ y.k = "nan" THEN FNaN
    ELSE IF ~IsFinite(x) /\ ~IsFinite(y) THEN FNaN
    ELSE IF ~IsFinite(x) THEN (IF Sign(x) * (IF y.n < 0 THEN -1 ELSE 1) > 0
                               THEN Inf ELSE NegInf)
    ELSE IF ~IsFinite(y) THEN Fin(0, 1)
    ELSE IF y.n = 0 THEN (IF x.n > 0 THEN Inf ELSE IF x.n < 0 THEN NegInf ELSE FNaN)
    ELSE Fin(x.n * y.d, x.d * y.n)

\* x + y
FAdd(x, y) ==
    IF x.k = "nan" \/ y.k = "nan" THEN FNaN
    ELSE IF ~IsFinite(x) /\ ~IsFinite(y) THEN (IF x.k = y.k THEN x ELSE FNaN)
    ELSE IF ~IsFinite(x) THEN x
    ELSE IF ~IsFinite(y) THEN y
    ELSE Fin(x.n * y.d + y.n * x.d, x.d * y.d)

\* x * y: zero times an infinity is nan.
FMul(x, y) ==
    IF x.k = "nan" \/ y.k = "nan" THEN FNaN
    ELSE IF IsFinite(x) /\ IsFinite(y) THEN Fin(x.n * y.n, x.d * y.d)
    ELSE IF Sign(x) * Sign(y) = 0 THEN FNaN
    ELSE IF Sign(x) * Sign(y) > 0 THEN Inf ELSE NegInf

-----------------------------------------------------------------------------
(* ProfitCalculator.compute_time_weighted (profit_calculator.py 37-41) *)

\* Mutant of PctBase: every change measured against the first element.
PctBase_First(curve, i) == curve[1].value

\* The value a change is measured against: the previous element.
PctBase(curve, i) == curve[i - 1].value

\* equity_curve.pct_change(): NaN for the first element, then
\* equity[i] / equity[i-1] - 1.
pct_change(curve) ==
    [i \in DOMAIN curve |->
        IF i = 1 THEN FNaN
        ELSE FAdd(FDiv(Fin(curve[i].value, 1), Fin(PctBase(curve, i), 1)), Fin(-1, 1))]

\* Mutant of dropna: nothing is dropped.
dropna_KeepAll(r) == r

RECURSIVE dropna(_)
\* .dropna(): the elements that are not nan, in order.
dropna(r) ==
    IF r = <<>> THEN <<>>
    ELSE IF Head(r).k = "nan" THEN dropna(Tail(r))
    ELSE <<Head(r)>> \o dropna(Tail(r))

RECURSIVE prod(_)
\* .prod(): the product of the elements, 1 for none.
prod(r) == IF r = <<>> THEN Fin(1, 1) ELSE FMul(prod(SubSeq(r, 1, Len(r) - 1)), r[Len(r)])

compute_time_weighted(curve) ==
    LET returns == dropna(pct_change(curve))
        growth  == FAdd(prod([i \in DOMAIN returns |-> FAdd(Fin(1, 1), returns[i])]),
                        Fin(-1, 1))
    IN  FMul(growth, Fin(100, 1))

-----------------------------------------------------------------------------
(* Fixed-point arithmetic of the IRR solver.  A rate r is the integer      *)
(* r * RateScale; a discount factor or an NPV x is the integer x * FixOne. *)
(* np.power(1 + rate, years) is 2^(years * log2(1 + rate)), with log2 and  *)
(* 2^x computed bit by bit to FracBits binary places.                      *)

FracBits == 12

FixOne == 2 ^ FracBits

\* One unit of rate is 1e-4 / 8192: -0.9999 and 10.0 are whole numbers of units.
RateScale == 10000 * 8192

\* floor(FixOne * 2^(1/2^j)) for j = 1 .. FracBits
Root2Table == <<5792, 4870, 4466, 4277, 4185, 4140, 4118, 4107, 4101, 4098, 4097, 4096>>

RECURSIVE IntLog2(_)
\* floor(log2(n)) for n >= 1
IntLog2(n) == IF n < 2 THEN 0 ELSE 1 + IntLog2(n \div 2)

RECURSIVE LogFrac(_, _, _)
\* The fraction bits of log2(m / FixOne) for FixOne <= m < 2 * FixOne, from
\* bit j on, by repeated squaring.
LogFrac(m, j, acc) ==
    IF j > FracBits THEN acc
    ELSE LET sq == (m * m) \div FixOne
         IN  IF sq >= 2 * FixOne
             THEN LogFrac(sq \div 2, j + 1, acc + 2 ^ (FracBits - j))
             ELSE LogFrac(sq, j + 1, acc)

\* log2(n) * FixOne for an integer n >= 1
Log2Fix(n) ==
    LET e == IntLog2(n)
        m == IF e >= FracBits THEN n \div 2 ^ (e - FracBits) ELSE n * 2 ^ (FracBits - e)
    IN  e * FixOne + LogFrac(m, 1, 0)

RECURSIVE ExpFrac(_, _, _)
\* 2^(f / FixOne) * FixOne for 0 <= f < FixOne, from bit j on.
ExpFrac(f, j, acc) ==
    IF j > FracBits THEN acc
    ELSE LET bit == 2 ^ (FracBits - j)
         IN  IF f >= bit
             THEN ExpFrac(f - bit, j + 1, (acc * Root2Table[j]) \div FixOne)
             ELSE ExpFrac(f, j + 1, acc)

\* 2^(x / FixOne) * FixOne
Exp2Fix(x) ==
    LET e == x \div FixOne
        m == ExpFrac(x % FixOne, 1, FixOne)
    IN  IF e >= 0 THEN m * 2 ^ e ELSE m \div 2 ^ (-e)

-----------------------------------------------------------------------------
(* ProfitCalculator._irr and compute_money_weighted                        *)
(* (profit_calculator.py 8-35, 43-50)                                      *)

\* The bracket of the search, -0.9999 and 10.0, in units of rate.
BracketLow == -9999 * 8192

BracketHigh == 100000 * 8192

MaxIter == 100

\* 365.25 days a year, as 1461 / 4.
YearDaysTimes4 == 1461

\* 1 / 1e-8
NpvTolInverse == 100000000

\* The label of a missing date: max() of an empty DatetimeIndex.
NaT == [nat |-> TRUE]

\* np.power(1 + rate, years) with years = days / 365.25
PowerOfRate(rate, days) ==
    Exp2Fix((4 * days * (Log2Fix(RateScale + rate) - Log2Fix(RateScale)))
                \div YearDaysTimes4)

\* npv(rate): (amounts / np.power(1 + rate, years)).sum()
npv(amounts, days, rate) ==
    SumOver([i \in DOMAIN amounts |->
                (amounts[i] * FixOne * FixOne) \div PowerOfRate(rate, days[i])],
            DOMAIN amounts)

\* abs(val) < 1e-8
NearZero(val) == Abs(val) <= (FixOne - 1) \div NpvTolInverse

\* The number of entries _irr needs before it solves (line 14).
MinEntries == 2

\* cash_flows.values and the day counts from the first date (lines 13, 18).
Amounts(cf) == [i \in DOMAIN cf |-> cf[i].value]

DayCounts(cf) == [i \in DOMAIN cf |-> cf[i].date.date - cf[1].date.date]

\* _irr up to its loop (lines 12-25): 0.0 is returned for less than 2
\* amounts, else the search starts on the whole bracket.
irr_begin(cf) ==
    IF Len(cf) < MinEntries
    THEN [k |-> "fin", series |-> cf, solved |-> FALSE, early |-> FALSE, iters |-> 0,
          low |-> BracketLow, high |-> BracketHigh, mid |-> 0]
    ELSE [k |-> "solving", series |-> cf, solved |-> TRUE, early |-> FALSE, iters |-> 0,
          low |-> BracketLow, high |-> BracketHigh, mid |-> 0]

\* Mutant of LoopDone: the loop stops one iteration short.
LoopDone_OneShort(n) == n = MaxIter - 1

\* for _ in range(100) (line 26): the loop ends with its n-th iteration.
LoopDone(n) == n = MaxIter

\* Mutant of RaisesLow: the bracket is updated the wrong way round.
RaisesLow_Inverted(val) == val <= 0

\* if val > 0: low = mid, else: high = mid (lines 31-34)
RaisesLow(val) == val > 0

\* One iteration of the loop (lines 26-34), and the return after the last
\* one (line 35).
irr_iterate(st) ==
    LET mid == (st.low + st.high) \div 2
        val == npv(Amounts(st.series), DayCounts(st.series), mid)
        n   == st.iters + 1
    IN  IF NearZero(val)
        THEN [st EXCEPT !.k = "fin", !.mid = mid, !.iters = n, !.early = TRUE]
        ELSE [st EXCEPT !.k = IF LoopDone(n) THEN "fin" ELSE "solving",
                        !.mid = mid, !.iters = n,
                        !.low = IF RaisesLow(val) THEN mid ELSE st.low,
                        !.high = IF RaisesLow(val) THEN st.high ELSE mid]

\* float(rate) * 100.0, the value compute_money_weighted returns (line 50).
Percent(rate) == Fin(rate, RateScale \div 100)

\* cf.index.max()
IndexMax(cf) ==
    IF cf = <<>> THEN NaT
    ELSE LET k == CHOOSE i \in DOMAIN cf :
                      \A j \in DOMAIN cf : cf[j].date.date <= cf[i].date.date
         IN  cf[k].date

\* last_date + pd.Timedelta(days=1); NaT plus anything is NaT.
PlusOneDay(dt) == IF dt = NaT THEN NaT ELSE [dt EXCEPT !.date = @ + 1]

\* cf.loc[label] = v: the entry of that label is overwritten, or a new entry
\* is added at the end.
SetLoc(cf, label, v) ==
    IF \E i \in DOMAIN cf : cf[i].date = label
    THEN [i \in DOMAIN cf |-> IF cf[i].date = label THEN [cf[i] EXCEPT !.value = v]
                              ELSE cf[i]]
    ELSE Append(cf, [date |-> label, value |-> v])

RECURSIVE sort_index(_)
\* cf.sort_index(): the entries by ascending date, NaT last.
sort_index(cf) ==
    IF Len(cf) <= 1 THEN cf
    ELSE LET k == CHOOSE i \in DOMAIN cf :
                      /\ cf[i].date # NaT
                      /\ \A j \in DOMAIN cf :
                            cf[j].date = NaT \/ cf[i].date.date <= cf[j].date.date
         IN  <<cf[k]>> \o sort_index([i \in 1..(Len(cf) - 1) |->
                                         IF i < k THEN cf[i] ELSE cf[i + 1]])

\* Mutant of CallerSeries: cf is the caller's own object, written in place.
CallerSeries_Aliased(cf, written) == written

\* cf = cash_flows.copy() (line 45): the write of line 48 lands on the copy,
\* and the caller's series stays as it was.
CallerSeries(cf, written) == cf

\* compute_money_weighted up to the call of _irr (lines 45-49): the series
\* handed to the solver.
WithTerminal(cf, tv) == sort_index(SetLoc(cf, PlusOneDay(IndexMax(cf)), tv))

-----------------------------------------------------------------------------
(* The run of main(): parse, build_positions, cash_flows, build_equity_curve *)

NoResult == [k |-> "none"]

\* The columns of the table parse returns from its last line
\* (webull_parser.py 87).
ParsedColumns == {"datetime", "date", "symbol", "qty", "price", "cash_flow"}

\* The columns of a Webull order file, renamed (webull_parser.py 28-40).
OrderColumns ==
    {"name", "symbol", "side", "status", "filled_qty", "total_qty", "price",
     "avg_price", "placed_time", "filled_time"}

\* The columns of the empty table parse returns early (webull_parser.py 47,
\* 63): those of the order file plus datetime and cash_flow.
EarlyColumns == OrderColumns \cup {"datetime", "cash_flow"}

\* The functions of the core.
CoreFunctions ==
    {"build_positions", "cash_flows", "build_equity_curve",
     "compute_time_weighted", "compute_money_weighted"}

\* No order file has been loaded.
NoFile == [columns |-> {}, rows |-> <<>>]

\* No core function has been called.
NoCalls == [f \in CoreFunctions |-> <<>>]

\* Nothing loaded and nothing computed yet.
Blank ==
    /\ trades = <<>>
    /\ px = [s \in SymbolSet |-> <<>>]
    /\ positions = <<>>
    /\ cashflows = <<>>
    /\ pos = EmptyFrame
    /\ path = "none"
    /\ equity = <<>>
    /\ terminal = 0
    /\ twr = NoResult
    /\ mwr = NoResult
    /\ exc = "none"
    /\ last = NoCalls
    /\ raw = NoFile

\* main() with the table the parser returned (line 98): a table of no rows
\* has the columns of an early return or those of the last line.
Init ==
    /\ pc = "load"
    /\ Blank
    /\ columns \in {ParsedColumns, EarlyColumns}

\* One more row of the parser's output.  WebullParser.parse returns its rows
\* sorted by datetime (webull_parser.py 88): a row is dated on or after the
\* one before it, and later in the day when on the same date.
LoadTrade ==
    /\ pc = "load"
    /\ columns = ParsedColumns
    /\ Len(trades) < MaxTrades
    /\ \E d \in Dates, s \in SymbolSet, f \in Fills :
          /\ trades # <<>> => d >= RowDate(trades, Len(trades))
          /\ trades' = Append(trades,
                 [datetime |-> [date |-> d, tod |-> Len(trades) + 1],
                  symbol |-> s, qty |-> f.qty, cash_flow |-> f.cash_flow])
    /\ UNCHANGED <<pc, px, positions, cashflows, pos, path, equity, terminal,
                   twr, mwr, exc, last, raw, columns>>

\* main.py 109: trades.groupby('symbol')['qty'] raises KeyError on a table
\* without these columns.
BuildPositions ==
    /\ pc = "load"
    /\ IF {"symbol", "qty"} \subseteq columns
       THEN /\ positions' = build_positions(trades)
            /\ pc' = "positions"
            /\ exc' = exc
       ELSE /\ positions' = positions
            /\ pc' = "raised"
            /\ exc' = "KeyError"
    /\ UNCHANGED <<trades, px, cashflows, pos, path, equity, terminal, twr, mwr,
                   last, raw, columns>>

\* main.py 110
CashFlows ==
    /\ pc = "positions"
    /\ IF {"datetime", "cash_flow"} \subseteq columns
       THEN /\ cashflows' = cash_flows(trades)
            /\ pc' = "cash_flows"
            /\ exc' = exc
       ELSE /\ cashflows' = cashflows
            /\ pc' = "raised"
            /\ exc' = "KeyError"
    /\ UNCHANGED <<trades, px, positions, pos, path, equity, terminal, twr, mwr,
                   last, raw, columns>>

\* main.py 112: the provider's data is whatever the market quotes, each symbol
\* on one of the day sets of QuoteDays.
BuildEquityCurve ==
    /\ pc = "cash_flows"
    /\ \E q \in [SymbolsOf(trades) -> QuoteDays] :
          LET quotes == [s \in SymbolSet |->
                            IF s \in SymbolsOf(trades)
                            THEN [d \in q[s] |-> Close[s][d]]
                            ELSE <<>>]
              r == build_equity_curve(quotes, trades)
          IN  /\ px' = quotes
              /\ path' = r.path
              /\ pos' = r.pos
              /\ equity' = r.equity
              /\ exc' = r.exc
              /\ pc' = IF r.exc = "none" THEN "equity" ELSE "raised"
    /\ UNCHANGED <<trades, positions, cashflows, terminal, twr, mwr, last, raw, columns>>

\* main.py 115-118: with an empty trades table main logs, prints and returns;
\* otherwise it goes on to the metrics, the benchmark and the plots.
EmptyTradesGuard ==
    /\ pc = "equity"
    /\ pc' = IF trades = <<>> THEN "returned" ELSE "metrics"
    /\ UNCHANGED <<trades, px, positions, cashflows, pos, path, equity, terminal,
                   twr, mwr, exc, last, raw, columns>>

Next == LoadTrade \/ BuildPositions \/ CashFlows \/ BuildEquityCurve \/ EmptyTradesGuard

Spec == Init /\ [][Next]_vars

-----------------------------------------------------------------------------
(* What the claims speak of, stated on the inputs *)

IsAscending(series) ==
    \A k \in DOMAIN series :
        k > 1 => /\ series[k - 1].date.date < series[k].date.date
                 /\ series[k].date.tod = 0 /\ series[k - 1].date.tod = 0

SeriesDates(series) == {series[k].date.date : k \in DOMAIN series}

FirstEventDate == Min(EventDates(trades))

\* The rows of symbol s dated on day D, and those dated in the days (D1, D2].
RowsOn(s, D) == {i \in DOMAIN trades : trades[i].symbol = s /\ RowDate(trades, i) = D}

RowsWithin(s, D1, D2) ==
    {i \in DOMAIN trades :
        trades[i].symbol = s /\ D1 < RowDate(trades, i) /\ RowDate(trades, i) <= D2}

QtySum(I) == SumOver([i \in DOMAIN trades |-> trades[i].qty], I)

CashSum(I) == SumOver([i \in DOMAIN trades |-> trades[i].cash_flow], I)

\* The days on or before D on which the provider gave a close of s.
ObservedUpTo(s, D) == {d \in DOMAIN px[s] : FirstEventDate <= d /\ d <= Today /\ d <= D}

LastPrice(s, D) == px[s][Max(ObservedUpTo(s, D))]

\* Position of s at the end of day D times its last observed price.
MarkToMarket(s, D) == QtySum(RowsWithin(s, 0, D)) * LastPrice(s, D)

\* C1: on the priced path, on every date D of the curve on which every symbol
\* has a price on or before D, equity is the sum over the symbols of the
\* cumulative signed quantity up to D times the last price on or before D.
C1_EquityInvariant ==
    (pc = "equity" /\ path = "priced") =>
        \A k \in DOMAIN equity :
            LET D == equity[k].date.date
            IN  (\A s \in SymbolsOf(trades) : ObservedUpTo(s, D) # {}) =>
                    equity[k].value =
                        SumOver([s \in SymbolsOf(trades) |-> MarkToMarket(s, D)],
                                SymbolsOf(trades))

\* A curve with two symbols held, a date on which both are priced, one of them
\* by a close carried forward from an earlier day, and a non-zero value.
C1_Witness ==
    /\ pc = "equity" /\ path = "priced"
    /\ Cardinality(SymbolsOf(trades)) = 2
    /\ \E k \in DOMAIN equity :
          LET D == equity[k].date.date
          IN  /\ \A s \in SymbolsOf(trades) : ObservedUpTo(s, D) # {}
              /\ \E s \in SymbolsOf(trades) : D \notin DOMAIN px[s]
              /\ \A s \in SymbolsOf(trades) : QtySum(RowsWithin(s, 0, D)) # 0
              /\ equity[k].value # 0

\* C2: when the provider has no data for any symbol, the curve has one entry
\* per distinct event date, ascending, and its k-th value is the sum of the
\* first k entries of the daily cash-flow series.
C2_FallbackInvariant ==
    (pc = "equity" /\ \A s \in SymbolsOf(trades) : ObservedUpTo(s, Today) = {}) =>
        /\ path = "fallback"
        /\ IsAscending(equity)
        /\ SeriesDates(equity) = EventDates(trades)
        /\ Len(equity) = Len(cashflows)
        /\ \A k \in DOMAIN equity :
              /\ equity[k].date = cashflows[k].date
              /\ equity[k].value =
                    SumOver([j \in DOMAIN cashflows |-> cashflows[j].value], 1..k)

\* A fallback curve of at least two dates, one of them with two events.
C2_Witness ==
    /\ pc = "equity" /\ path = "fallback"
    /\ Len(equity) >= 2 /\ Len(trades) > Len(equity)
    /\ equity[Len(equity)].value # equity[1].value

\* C4: cash_flows has one entry per calendar date with an event and no other,
\* in ascending date order, each the sum of cash_flow over that date's events.
C4_CashFlowAggregator ==
    pc \in {"cash_flows", "equity"} =>
        /\ IsAscending(cashflows)
        /\ SeriesDates(cashflows) = EventDates(trades)
        /\ \A k \in DOMAIN cashflows :
              cashflows[k].value =
                  CashSum({i \in DOMAIN trades :
                              RowDate(trades, i) = cashflows[k].date.date})

\* Two events of one day, a buy and a sell, netted into one entry, and a
\* second day besides.
C4_Witness ==
    /\ pc = "cash_flows"
    /\ Len(cashflows) = 2
    /\ \E k \in DOMAIN cashflows, i, j \in DOMAIN trades :
          /\ i # j
          /\ RowDate(trades, i) = cashflows[k].date.date
          /\ RowDate(trades, j) = cashflows[k].date.date
          /\ trades[i].cash_flow < 0 /\ trades[j].cash_flow > 0
          /\ cashflows[k].value = trades[i].cash_flow + trades[j].cash_flow

\* C5: the position recorded at each event is the running sum of signed
\* quantity over the events of its symbol up to and including it, and the
\* (date, symbol) snapshot of the equity curve is the running total at the
\* last event of that date for that symbol.
C5_PositionTracker ==
    /\ pc # "load" =>
          /\ Len(positions) = Len(trades)
          /\ \A i \in DOMAIN positions :
                positions[i].position =
                    QtySum({j \in 1..i : trades[j].symbol = trades[i].symbol})
    /\ (pc = "equity" /\ path = "priced") =>
          \A k \in DOMAIN pos.index : \A s \in pos.cols :
              RowsOn(s, pos.index[k]) # {} =>
                  pos.data[k][s] = Num(positions[Max(RowsOn(s, pos.index[k]))].position)

\* Buy, sell, buy of one symbol (2, 1, 3), two of them on one day, another
\* symbol's day in between, on the priced path.
C5_Witness ==
    /\ pc = "equity" /\ path = "priced"
    /\ Len(trades) = 3
    /\ \A i \in DOMAIN trades : trades[i].symbol = "A"
    /\ <<positions[1].position, positions[2].position, positions[3].position>>
          = <<2, 1, 3>>
    /\ RowDate(trades, 1) = RowDate(trades, 2)
    /\ RowDate(trades, 2) < RowDate(trades, 3)

\* The position of symbol s at the end of event day D, read off build_positions.
PositionAt(s, D) == positions[Max(RowsOn(s, D))].position

\* C6 as stated: per symbol the Position Series never decreases from one date
\* to a later one.
C6_PositionsNonDecreasing ==
    pc # "load" =>
        \A s \in SymbolsOf(trades) : \A D1, D2 \in EventDates(trades) :
            (D1 < D2 /\ RowsOn(s, D1) # {} /\ RowsOn(s, D2) # {}) =>
                PositionAt(s, D1) <= PositionAt(s, D2)

\* C6 as amended: between two dates the position of a symbol changes by the
\* sum of the signed quantities of its events in between, so it does not
\* decrease when none of them is a sell.
C6_PositionsRunningSum ==
    pc # "load" =>
        \A s \in SymbolsOf(trades) : \A D1, D2 \in EventDates(trades) :
            (D1 < D2 /\ RowsOn(s, D1) # {} /\ RowsOn(s, D2) # {}) =>
                /\ PositionAt(s, D2) - PositionAt(s, D1) = QtySum(RowsWithin(s, D1, D2))
                /\ (\A i \in RowsWithin(s, D1, D2) : trades[i].qty >= 0) =>
                       PositionAt(s, D1) <= PositionAt(s, D2)

\* A symbol bought on two dates with another symbol traded in between.
C6_Witness ==
    /\ pc = "positions"
    /\ Len(trades) = 3
    /\ trades[1].symbol = trades[3].symbol /\ trades[2].symbol # trades[1].symbol
    /\ RowDate(trades, 1) < RowDate(trades, 3)
    /\ trades[1].qty > 0 /\ trades[3].qty > 0
    /\ PositionAt(trades[1].symbol, RowDate(trades, 1))
          < PositionAt(trades[1].symbol, RowDate(trades, 3))

\* C7 as stated: the curve is date-ascending, starts on the first event date
\* and ends today, on both paths.
C7_SpansFirstEventToToday ==
    pc = "equity" =>
        /\ IsAscending(equity)
        /\ equity[1].date.date = FirstEventDate
        /\ equity[Len(equity)].date.date = Today

\* C7 as amended: the curve is date-ascending and starts on the first event
\* date; its dates are the event dates and the days a close was observed on,
\* so it ends on the latest of those, which is today at the latest.
C7_SpansEventAndQuoteDates ==
    pc = "equity" =>
        /\ IsAscending(equity)
        /\ equity[1].date.date = FirstEventDate
        /\ SeriesDates(equity) =
              EventDates(trades)
                  \cup UNION {ObservedUpTo(s, Today) : s \in SymbolsOf(trades)}
        /\ equity[Len(equity)].date.date <= Today

\* A priced curve that ends before today, and has a day with a close and no event.
C7_Witness ==
    /\ pc = "equity" /\ path = "priced"
    /\ equity[Len(equity)].date.date < Today
    /\ SeriesDates(equity) # EventDates(trades)

\* C8: with at least one symbol priced, a symbol without data contributes 0
\* on every date, a priced symbol contributes 0 before its first close, every
\* other holding is valued at position times last close, and nothing is raised.
C8_UnpricedContributeZero ==
    (pc = "equity" /\ \E s \in SymbolsOf(trades) : ObservedUpTo(s, Today) # {}) =>
        /\ path = "priced"
        /\ exc = "none"
        /\ \A k \in DOMAIN equity :
              LET D == equity[k].date.date
                  valued == {s \in SymbolsOf(trades) : ObservedUpTo(s, D) # {}}
              IN  equity[k].value =
                      SumOver([s \in valued |-> MarkToMarket(s, D)], valued)

\* One symbol held and never priced, the other held and priced from a later
\* day on: a date where nothing is valued and a date where one symbol is.
C8_Witness ==
    /\ pc = "equity" /\ path = "priced"
    /\ \E s, u \in SymbolsOf(trades) :
          /\ ObservedUpTo(s, Today) = {}
          /\ ObservedUpTo(u, Today) # {}
          /\ \E j, k \in DOMAIN equity :
                /\ j < k
                /\ ObservedUpTo(u, equity[j].date.date) = {}
                /\ QtySum(RowsWithin(u, 0, equity[j].date.date)) # 0
                /\ QtySum(RowsWithin(s, 0, equity[j].date.date)) # 0
                /\ equity[j].value = 0
                /\ equity[k].value = MarkToMarket(u, equity[k].date.date)
                /\ equity[k].value # 0

-----------------------------------------------------------------------------
(* compute_time_weighted applied to any equity curve *)

MaxCurve == 3

CurveValues == {-2, 0, 1, 3}

InitTWR ==
    /\ pc = "curve"
    /\ Blank
    /\ columns = ParsedColumns

\* The caller's curve grows by one dated value.
AppendPoint ==
    /\ pc = "curve"
    /\ Len(equity) < MaxCurve
    /\ \E v \in CurveValues :
          equity' = Append(equity, [date |-> ToDatetime(Len(equity) + 1), value |-> v])
    /\ UNCHANGED <<pc, trades, px, positions, cashflows, pos, path, terminal,
                   twr, mwr, exc, last, raw, columns>>

\* main.py 127
ComputeTimeWeighted ==
    /\ pc = "curve"
    /\ twr' = compute_time_weighted(equity)
    /\ pc' = "twr"
    /\ UNCHANGED <<trades, px, positions, cashflows, pos, path, equity, terminal,
                   mwr, exc, last, raw, columns>>

NextTWR == AppendPoint \/ ComputeTimeWeighted

SpecTWR == InitTWR /\ [][NextTWR]_vars

\* C9 as stated: for every curve of at least 2 points the result is a finite
\* float, whatever its values.
C9_TimeWeightedFinite ==
    (pc = "twr" /\ Len(equity) >= 2) => IsFinite(twr)

\* C10: for a curve of at least 2 points without a zero the result is
\* (last/first - 1) * 100 whatever lies in between, and for a flat curve it is 0.
C10_TimeWeightedTelescopes ==
    (pc = "twr" /\ Len(equity) >= 2) =>
        /\ (\A i \in DOMAIN equity : equity[i].value # 0) =>
              /\ IsFinite(twr)
              /\ twr.n * equity[1].value
                    = (equity[Len(equity)].value - equity[1].value) * 100 * twr.d
        /\ (\A i \in DOMAIN equity : equity[i].value = equity[1].value) =>
              twr = [k |-> "fin", n |-> 0, d |-> 1]

\* A curve of three non-zero values, the middle one apart from both ends,
\* with a non-zero result.
C10_Witness ==
    /\ pc = "twr"
    /\ Len(equity) = 3
    /\ \A i \in DOMAIN equity : equity[i].value # 0
    /\ equity[2].value # equity[1].value /\ equity[2].value # equity[3].value
    /\ IsFinite(twr) /\ twr.n # 0

\* C11: for a curve of fewer than 2 points (none, or a single one) the result
\* is 0.0 and nothing is raised: the only change of a single point is nan and
\* is dropped, and the product of no returns is 1.
C11_ShortCurveGivesZero ==
    (pc = "twr" /\ Len(equity) < 2) =>
        /\ twr = [k |-> "fin", n |-> 0, d |-> 1]
        /\ exc = "none"

\* The result of a single-point curve whose value is not zero.
C11_Witness ==
    /\ pc = "twr"
    /\ Len(equity) = 1
    /\ equity[1].value # 0
    /\ twr = [k |-> "fin", n |-> 0, d |-> 1]

-----------------------------------------------------------------------------
(* compute_money_weighted applied to any daily cash-flow series *)

MaxFlows == 2

FlowValues == {-10, -4, 5}

TerminalValues == {0, 7, 12}

\* Days from one cash-flow date to the next.
FlowGaps == {1, 30, 90}

InitMWR ==
    /\ pc = "flows"
    /\ Blank
    /\ columns = ParsedColumns

\* The caller's series (date-indexed, ascending, as cash_flows builds it)
\* grows by one entry.
AppendFlow ==
    /\ pc = "flows"
    /\ Len(cashflows) < MaxFlows
    /\ \E v \in FlowValues, g \in FlowGaps :
          /\ cashflows = <<>> => g = 1
          /\ cashflows' = Append(cashflows,
                 [date |-> ToDatetime(IF cashflows = <<>> THEN g
                                      ELSE cashflows[Len(cashflows)].date.date + g),
                  value |-> v])
    /\ UNCHANGED <<pc, trades, px, positions, pos, path, equity, terminal,
                   twr, mwr, exc, last, raw, columns>>

\* compute_money_weighted is called (main.py 124) and runs up to _irr's loop.
ComputeMoneyWeighted ==
    /\ pc = "flows"
    /\ \E tv \in TerminalValues :
          /\ terminal' = tv
          /\ mwr' = irr_begin(WithTerminal(cashflows, tv))
          /\ pc' = IF Len(WithTerminal(cashflows, tv)) < MinEntries THEN "mwr" ELSE "irr"
          /\ cashflows' = CallerSeries(cashflows,
                              SetLoc(cashflows, PlusOneDay(IndexMax(cashflows)), tv))
    /\ UNCHANGED <<trades, px, positions, pos, path, equity, twr, exc, last, raw, columns>>

\* One iteration of the bisection; the call returns with the last one.
IrrIterate ==
    /\ pc = "irr"
    /\ mwr' = irr_iterate(mwr)
    /\ pc' = IF irr_iterate(mwr).k = "fin" THEN "mwr" ELSE "irr"
    /\ UNCHANGED <<trades, px, positions, cashflows, pos, path, equity, terminal,
                   twr, exc, last, raw, columns>>

NextMWR == AppendFlow \/ ComputeMoneyWeighted \/ IrrIterate

SpecMWR == InitMWR /\ [][NextMWR]_vars

\* C3 as stated: with fewer than 2 dated entries compute_money_weighted
\* returns 0.0 without attempting the solve and without raising.
C3_DegenerateSeriesGivesZero ==
    (pc = "mwr" /\ Len(cashflows) < 2) =>
        /\ ~mwr.solved
        /\ Percent(mwr.mid) = [k |-> "fin", n |-> 0, d |-> 1]
        /\ exc = "none"

\* C12: the series compute_money_weighted solves over is the caller's series,
\* every entry kept as it is, plus exactly one entry of value terminal_value;
\* for a caller's series that is not empty that entry is dated one day after
\* the latest cash-flow date and is the last one, and the day counts are
\* measured from the earliest date; the caller's own series is not modified.
C12_TerminalEntryAppended ==
    [][(pc = "flows" /\ pc' # "flows") =>
          LET s == mwr'.series
              n == Len(cashflows)
          IN  /\ cashflows' = cashflows
              /\ Len(s) = n + 1
              /\ \A i \in 1..n : s[i] = cashflows[i]
              /\ s[n + 1].value = terminal'
              /\ n > 0 =>
                    /\ s[n + 1].date =
                          ToDatetime(Max({cashflows[i].date.date : i \in 1..n}) + 1)
                    /\ \A i \in 1..n : s[i].date.date < s[n + 1].date.date
                    /\ \A i \in 1..(n + 1) :
                          DayCounts(s)[i] = s[i].date.date
                              - Min({cashflows[j].date.date : j \in 1..n})]_vars

\* A call on a series of two entries, a month apart: the solver works on
\* three entries, the last one the terminal value, and the caller's series
\* still has two.
C12_Witness ==
    /\ pc = "irr"
    /\ Len(cashflows) = 2
    /\ cashflows[2].date.date = cashflows[1].date.date + 30
    /\ Len(mwr.series) = 3
    /\ mwr.series[3].value = terminal
    /\ terminal # 0
    /\ DayCounts(mwr.series) = <<0, 30, 31>>

\* The NPV of the series being solved, as the solver computes it.
SeriesNpv(rate) == npv(Amounts(mwr.series), DayCounts(mwr.series), rate)

\* C13: for a series of at least 2 entries the bisection raises nothing, is
\* never past its 100th iteration, and returns a midpoint: before the 100th
\* iteration only when |NPV(mid)| < 1e-8, else the 100th midpoint.  With
\* cash flows that are all positive NPV has no sign change: low rises at
\* every iteration and the 100th midpoint is returned.
C13_BisectionTerminates ==
    (pc \in {"irr", "mwr"} /\ Len(mwr.series) >= 2) =>
        /\ mwr.solved
        /\ exc = "none"
        /\ mwr.iters <= MaxIter
        /\ pc = "irr" => mwr.k = "solving" /\ mwr.iters < MaxIter /\ ~mwr.early
        /\ pc = "mwr" =>
              /\ mwr.k = "fin"
              /\ mwr.iters >= 1
              /\ mwr.low <= mwr.mid /\ mwr.mid <= mwr.high
              /\ mwr.early => /\ NearZero(SeriesNpv(mwr.mid))
                              /\ mwr.mid = (mwr.low + mwr.high) \div 2
              /\ ~mwr.early => /\ mwr.iters = MaxIter
                               /\ ~NearZero(SeriesNpv(mwr.mid))
                               /\ mwr.mid \in {mwr.low, mwr.high}
              /\ (\A i \in DOMAIN mwr.series : mwr.series[i].value > 0) =>
                    /\ ~mwr.early
                    /\ mwr.iters = MaxIter
                    /\ mwr.mid = mwr.low
                    /\ mwr.high = BracketHigh

\* The solver has returned its 100th midpoint for cash flows that are all
\* positive.
C13_Witness ==
    /\ pc = "mwr"
    /\ Len(cashflows) >= 1
    /\ \A i \in DOMAIN mwr.series : mwr.series[i].value > 0
    /\ mwr.solved /\ ~mwr.early
    /\ mwr.iters = MaxIter

\* The solver is at work on, or has returned from, a series whose NPV is
\* positive at the low end of the bracket and not positive at the high end:
\* a root r* lies inside, the only one when NPV is strictly decreasing.
WellPosed ==
    /\ pc \in {"irr", "mwr"}
    /\ mwr.solved
    /\ SeriesNpv(BracketLow) > 0
    /\ SeriesNpv(BracketHigh) <= 0

\* C14: for such a series, at every iteration the bracket stays inside
\* [-0.9999, 10.0] and around the root (NPV positive at low, not positive at
\* high); an iteration with a positive NPV at mid raises low to mid, any
\* other lowers high to mid, so the width halves (to the unit of rate); and
\* the midpoint returned has |NPV| < 1e-8 or lies in the final bracket, one
\* unit of rate wide at most.
C14_BisectionConverges ==
    /\ [](WellPosed =>
            /\ BracketLow <= mwr.low /\ mwr.low <= mwr.high /\ mwr.high <= BracketHigh
            /\ SeriesNpv(mwr.low) > 0
            /\ SeriesNpv(mwr.high) <= 0
            /\ pc = "mwr" =>
                  /\ mwr.early => NearZero(SeriesNpv(mwr.mid))
                  /\ ~mwr.early => /\ mwr.low <= mwr.mid /\ mwr.mid <= mwr.high
                                   /\ mwr.high - mwr.low <= 1)
    /\ [][(WellPosed /\ pc = "irr") =>
            LET w == mwr.high - mwr.low
            IN  /\ mwr'.mid = (mwr.low + mwr.high) \div 2
                /\ mwr'.early => mwr'.low = mwr.low /\ mwr'.high = mwr.high
                /\ (~mwr'.early /\ SeriesNpv(mwr'.mid) > 0) =>
                      /\ mwr'.low = mwr'.mid /\ mwr'.high = mwr.high
                      /\ mwr'.high - mwr'.low = w - w \div 2
                /\ (~mwr'.early /\ SeriesNpv(mwr'.mid) <= 0) =>
                      /\ mwr'.high = mwr'.mid /\ mwr'.low = mwr.low
                      /\ mwr'.high - mwr'.low = w \div 2]_vars

\* The solver has run all its iterations on an investment followed by
\* returns, low and high both moved, and the final bracket has closed on the
\* root.
C14_Witness ==
    /\ WellPosed
    /\ pc = "mwr"
    /\ ~mwr.early
    /\ mwr.series[1].value < 0
    /\ \A i \in 2..Len(mwr.series) : mwr.series[i].value > 0
    /\ BracketLow < mwr.low /\ mwr.high < BracketHigh
    /\ mwr.high - mwr.low <= 1

\* C17 as stated: whenever the parser yields no filled trades, no step before
\* the guard of main fails on the empty table (the run gets to the guard and
\* returns), and no return metric is computed.
C17_EmptyTradesReachGuard ==
    trades = <<>> =>
        /\ exc = "none"
        /\ pc # "raised"
        /\ twr = NoResult /\ mwr = NoResult

-----------------------------------------------------------------------------
(* The core functions called again and again, in any order, on the same    *)
(* caller-owned objects                                                    *)

\* The caller's trades: a buy of A on the first date, alone or followed by
\* one more row.
FirstBuy ==
    LET f == CHOOSE x \in Fills : x.qty > 0
    IN  [datetime |-> [date |-> Min(Dates), tod |-> 1], symbol |-> "A",
         qty |-> f.qty, cash_flow |-> f.cash_flow]

CallTables ==
    {<<FirstBuy>>} \cup
    {<<FirstBuy, [datetime |-> [date |-> d, tod |-> 2], symbol |-> s,
                  qty |-> f.qty, cash_flow |-> f.cash_flow]>> :
        d \in Dates, s \in SymbolSet, f \in Fills}

\* The provider's data: every symbol quoted on the same days.
CallQuotes == {[s \in SymbolSet |-> [d \in q |-> Close[s][d]]] : q \in QuoteDays}

InitCalls ==
    /\ pc = "idle"
    /\ trades \in CallTables
    /\ px \in CallQuotes
    /\ positions = <<>>
    /\ cashflows = <<>>
    /\ pos = EmptyFrame
    /\ path = "none"
    /\ equity = <<>>
    /\ terminal = 0
    /\ twr = NoResult
    /\ mwr = NoResult
    /\ exc = "none"
    /\ last = NoCalls
    /\ raw = NoFile
    /\ columns = ParsedColumns

\* The record of a call that has returned.
Returned(f, in, out) == [last EXCEPT ![f] = <<[in |-> in, out |-> out]>>]

\* positions = portfolio_builder.build_positions(trades); the function works
\* on trades.copy() (portfolio_builder.py 11).
CallBuildPositions ==
    /\ pc = "idle"
    /\ positions' = build_positions(trades)
    /\ last' = Returned("build_positions", trades, build_positions(trades))
    /\ UNCHANGED <<pc, trades, px, cashflows, pos, path, equity, terminal, twr,
                   mwr, exc, raw, columns>>

\* cash_flows = portfolio_builder.cash_flows(trades); the function works on a
\* copy of two columns (portfolio_builder.py 16).
CallCashFlows ==
    /\ pc = "idle"
    /\ cashflows' = cash_flows(trades)
    /\ last' = Returned("cash_flows", trades, cash_flows(trades))
    /\ UNCHANGED <<pc, trades, px, positions, pos, path, equity, terminal, twr,
                   mwr, exc, raw, columns>>

\* equity = build_equity_curve(trades, price_provider); the function works on
\* trades.copy() (main.py 18).
CallBuildEquityCurve ==
    /\ pc = "idle"
    /\ LET r == build_equity_curve(px, trades)
       IN  /\ path' = r.path
           /\ pos' = r.pos
           /\ equity' = r.equity
           /\ last' = Returned("build_equity_curve",
                               [trades |-> trades, quotes |-> px], r.equity)
    /\ UNCHANGED <<pc, trades, px, positions, cashflows, terminal, twr, mwr, exc,
                   raw, columns>>

\* compute_time_weighted on the curve the caller holds.
CallTimeWeighted ==
    /\ pc = "idle"
    /\ last["build_equity_curve"] # <<>>
    /\ twr' = compute_time_weighted(equity)
    /\ last' = Returned("compute_time_weighted", equity, compute_time_weighted(equity))
    /\ UNCHANGED <<pc, trades, px, positions, cashflows, pos, path, equity,
                   terminal, mwr, exc, raw, columns>>

\* compute_money_weighted on the series the caller holds, the terminal value
\* the last value of the curve; the call runs up to _irr's loop.
CallMoneyWeighted ==
    /\ pc = "idle"
    /\ last["cash_flows"] # <<>>
    /\ last["build_equity_curve"] # <<>>
    /\ LET tv == equity[Len(equity)].value
       IN  /\ terminal' = tv
           /\ mwr' = irr_begin(WithTerminal(cashflows, tv))
           /\ pc' = IF Len(WithTerminal(cashflows, tv)) < MinEntries THEN "mwr" ELSE "irr"
           /\ cashflows' = CallerSeries(cashflows,
                               SetLoc(cashflows, PlusOneDay(IndexMax(cashflows)), tv))
    /\ UNCHANGED <<trades, px, positions, pos, path, equity, twr, exc, last, raw,
                   columns>>

\* compute_money_weighted returns float(rate) * 100.0 (line 50).
ReturnMoneyWeighted ==
    /\ pc = "mwr"
    /\ pc' = "idle"
    /\ last' = Returned("compute_money_weighted",
                        [cash_flows |-> cashflows, terminal_value |-> terminal],
                        Percent(mwr.mid))
    /\ UNCHANGED <<trades, px, positions, cashflows, pos, path, equity, terminal,
                   twr, mwr, exc, raw, columns>>

NextCalls ==
    \/ CallBuildPositions
    \/ CallCashFlows
    \/ CallBuildEquityCurve
    \/ CallTimeWeighted
    \/ CallMoneyWeighted
    \/ IrrIterate
    \/ ReturnMoneyWeighted

SpecCalls == InitCalls /\ [][NextCalls]_vars

-----------------------------------------------------------------------------
(* WebullParser.parse (webull_parser.py 10-16, 24-89).  A string is a      *)
(* sequence of characters; a text cell is Text(s), or NoText when it holds *)
(* no string (NaN); a time cell is the datetime pd.to_datetime made of it, *)
(* NaT when it does not parse; a number cell is Num(v), NaN when it is not *)
(* numeric.                                                                *)

NoText == <<>>

Text(s) == <<s>>

UpperCase ==
    <<"A", "B", "C", "D", "E", "F", "G", "H", "I", "J", "K", "L", "M",
      "N", "O", "P", "Q", "R", "S", "T", "U", "V", "W", "X", "Y", "Z">>

LowerCase ==
    <<"a", "b", "c", "d", "e", "f", "g", "h", "i", "j", "k", "l", "m",
      "n", "o", "p", "q", "r", "s", "t", "u", "v", "w", "x", "y", "z">>

\* str.lower()
ToLower(s) ==
    [i \in DOMAIN s |->
        IF \E k \in DOMAIN UpperCase : UpperCase[k] = s[i]
        THEN LowerCase[CHOOSE k \in DOMAIN UpperCase : UpperCase[k] = s[i]]
        ELSE s[i]]

\* str.upper()
ToUpper(s) ==
    [i \in DOMAIN s |->
        IF \E k \in DOMAIN LowerCase : LowerCase[k] = s[i]
        THEN UpperCase[CHOOSE k \in DOMAIN LowerCase : LowerCase[k] = s[i]]
        ELSE s[i]]

\* Mutant of Strip: the text is taken as it is.
Strip_Nothing(s) == s

RECURSIVE Strip(_)
\* str.strip(): the text without its leading and trailing blanks.
Strip(s) ==
    IF s = <<>> THEN s
    ELSE IF Head(s) = " " THEN Strip(Tail(s))
    ELSE IF s[Len(s)] = " " THEN Strip(SubSeq(s, 1, Len(s) - 1))
    ELSE s

\* str.startswith(p)
StartsWith(s, p) == Len(s) >= Len(p) /\ SubSeq(s, 1, Len(p)) = p

\* p occurs in s
Contains(s, p) ==
    \E i \in 1..(Len(s) - Len(p) + 1) : SubSeq(s, i, i + Len(p) - 1) = p

\* astype(str): a cell without a string becomes the text 'nan'.
AsStr(c) == IF c = NoText THEN <<"n", "a", "n">> ELSE c[1]

\* _normalize_side (lines 10-16)
normalize_side(c) ==
    IF c = NoText THEN "buy"
    ELSE IF StartsWith(ToLower(Strip(c[1])), <<"s", "e", "l", "l">>) THEN "sell"
    ELSE "buy"

\* d['status'].astype(str).str.contains('fill', case=False, na=False) (line 44)
is_filled(r) == Contains(ToLower(AsStr(r.status)), <<"f", "i", "l", "l">>)

\* dt_filled.fillna(dt_placed) (line 60)
datetime_col(r) == IF r.filled_time = NaT THEN r.placed_time ELSE r.filled_time

\* price.where(~price.isna(), fallback) (lines 69-71)
price_col(r) == IF IsNaN(r.avg_price) THEN r.price ELSE r.avg_price

\* pd.to_numeric(d.get('filled_qty', d.get('total_qty', NaN))).fillna(0.0)
\* (line 74): the Filled column, Total Qty in a file that has no Filled.
qty_col(r, cols) ==
    LET c == IF "filled_qty" \in cols THEN r.filled_qty
             ELSE IF "total_qty" \in cols THEN r.total_qty
             ELSE NaN
    IN  IF IsNaN(c) THEN 0 ELSE c[1]

\* d['side'].astype(str).apply(_normalize_side) (line 77)
side_col(r) == normalize_side(Text(AsStr(r.side)))

\* np.where(side == 'buy', qty, -qty) (line 78)
signed_qty(r, cols) ==
    IF side_col(r) = "buy" THEN qty_col(r, cols) ELSE -qty_col(r, cols)

\* gross = price * qty; np.where(side == 'sell', gross, -gross) (lines 81-82)
signed_cash(r, cols) ==
    IF IsNaN(price_col(r)) THEN NaN
    ELSE LET gross == price_col(r)[1] * qty_col(r, cols)
         IN  IF side_col(r) = "sell" THEN Num(gross) ELSE Num(-gross)

\* The rows left by the status filter (lines 43-45), which is applied when
\* the file has a Status column.
FilledRows(rows, cols) ==
    IF "status" \in cols THEN SelectSeq(rows, is_filled) ELSE rows

\* The rows left by the timestamp filter (line 61).
TimedRows(rows) == SelectSeq(rows, LAMBDA r : datetime_col(r) # NaT)

\* The selected columns of one row (lines 65-87).
ParsedRow(r, cols) ==
    [datetime  |-> datetime_col(r),
     symbol    |-> ToUpper(Strip(AsStr(r.symbol))),
     qty       |-> signed_qty(r, cols),
     price     |-> price_col(r),
     cash_flow |-> signed_cash(r, cols)]

\* dropna(subset=['datetime', 'price']) (line 87)
DropNaPrice(rows) == SelectSeq(rows, LAMBDA t : ~IsNaN(t.price))

\* The sort key of a datetime.
TimeKey(dt) == dt.date * 100 + dt.tod

\* sort_values('datetime') (line 88): the rows in an ascending order of
\* datetime; the order of rows of equal datetime is the sort's choice.
SortedByDatetime(rows) ==
    {[i \in DOMAIN rows |-> rows[p[i]]] :
        p \in {q \in [DOMAIN rows -> DOMAIN rows] :
                  /\ \A i, j \in DOMAIN rows : i # j => q[i] # q[j]
                  /\ \A i, j \in DOMAIN rows :
                        i < j => TimeKey(rows[q[i]].datetime)
                                     <= TimeKey(rows[q[j]].datetime)}}

\* parse: the columns of the table returned and the row orders it can have.
parse(rows, cols) ==
    IF TimedRows(FilledRows(rows, cols)) = <<>>
    THEN [columns |-> cols \cup {"datetime", "cash_flow"}, tables |-> {<<>>}]
    ELSE LET timed == TimedRows(FilledRows(rows, cols))
             kept  == DropNaPrice([i \in DOMAIN timed |-> ParsedRow(timed[i], cols)])
         IN  [columns |-> ParsedColumns,
              tables  |-> SortedByDatetime(
                              [i \in DOMAIN kept |->
                                  [datetime  |-> kept[i].datetime,
                                   symbol    |-> kept[i].symbol,
                                   qty       |-> kept[i].qty,
                                   price     |-> kept[i].price[1],
                                   cash_flow |-> kept[i].cash_flow[1]]])]

MaxRaw == 2

\* The cells of the order file.
SideCells ==
    {Text(<<"B", "u", "y">>), Text(<<" ", "S", "E", "L", "L", " ", "t", "o">>), NoText}

StatusCells ==
    {Text(<<"P", "a", "r", "t", " ", "F", "I", "L", "L", "E", "D">>),
     Text(<<"C", "a", "n", "c", "e", "l", "l", "e", "d">>)}

TimeCells ==
    {[filled_time |-> [date |-> 2, tod |-> 30], placed_time |-> [date |-> 1, tod |-> 10]],
     [filled_time |-> NaT, placed_time |-> [date |-> 1, tod |-> 10]],
     [filled_time |-> NaT, placed_time |-> NaT]}

AmountCells ==
    {[filled_qty |-> Num(2), avg_price |-> Num(3), price |-> Num(5)],
     [filled_qty |-> NaN, avg_price |-> NaN, price |-> Num(5)],
     [filled_qty |-> Num(2), avg_price |-> NaN, price |-> NaN]}

\* Total Qty of every order.
OrderedQty == 4

\* The order files: with every column, without Status, without Filled.
FileColumns ==
    {OrderColumns, OrderColumns \ {"status"}, OrderColumns \ {"filled_qty"}}

\* The order file as loaded (main.py 95): its columns, no row read yet, and
\* no table parsed.
InitParse ==
    /\ pc = "raw"
    /\ trades = <<>>
    /\ px = [s \in SymbolSet |-> <<>>]
    /\ positions = <<>>
    /\ cashflows = <<>>
    /\ pos = EmptyFrame
    /\ path = "none"
    /\ equity = <<>>
    /\ terminal = 0
    /\ twr = NoResult
    /\ mwr = NoResult
    /\ exc = "none"
    /\ last = NoCalls
    /\ raw \in {[columns |-> c, rows |-> <<>>] : c \in FileColumns}
    /\ columns = {}

\* The cell of column c in a row of the file: cell when the file has the
\* column, else the given empty cell.
CellOf(c, cell, empty) == IF c \in raw.columns THEN cell ELSE empty

\* One more row of the order file.
AppendRaw ==
    /\ pc = "raw"
    /\ Len(raw.rows) < MaxRaw
    /\ \E sd \in SideCells, st \in StatusCells, tm \in TimeCells, am \in AmountCells :
          raw' = [raw EXCEPT !.rows = Append(@,
                    [side        |-> sd,
                     status      |-> CellOf("status", st, NoText),
                     symbol      |-> Text(<<" ", "a">>),
                     filled_time |-> tm.filled_time,
                     placed_time |-> tm.placed_time,
                     filled_qty  |-> CellOf("filled_qty", am.filled_qty, NaN),
                     total_qty   |-> Num(OrderedQty),
                     avg_price   |-> am.avg_price,
                     price       |-> am.price])]
    /\ UNCHANGED <<pc, trades, px, positions, cashflows, pos, path, equity, terminal,
                   twr, mwr, exc, last, columns>>

\* trades = parser.parse(trades_raw_df) (main.py 98)
Parse ==
    /\ pc = "raw"
    /\ columns' = parse(raw.rows, raw.columns).columns
    /\ trades' \in parse(raw.rows, raw.columns).tables
    /\ pc' = "parsed"
    /\ UNCHANGED <<px, positions, cashflows, pos, path, equity, terminal, twr, mwr,
                   exc, last, raw>>

NextParse == AppendRaw \/ Parse

SpecParse == InitParse /\ [][NextParse]_vars

\* The side cells that begin with 'sell' once trimmed and lower-cased, and
\* the status cells that contain 'fill' in any case.
SellSides == {Text(<<" ", "S", "E", "L", "L", " ", "t", "o">>)}

FillStatuses == {Text(<<"P", "a", "r", "t", " ", "F", "I", "L", "L", "E", "D">>)}

\* Row t of the output is made of row r of the order file: r has a
\* timestamp and a price, and t carries them with the quantity q, signed by
\* r's side.
SignedAs(t, r, q) ==
    LET when  == IF r.filled_time # NaT THEN r.filled_time ELSE r.placed_time
        price == IF r.avg_price # NaN THEN r.avg_price ELSE r.price
    IN  /\ when # NaT
        /\ price # NaN
        /\ t.datetime = when
        /\ IF r.side \in SellSides
           THEN t.qty = -q /\ t.cash_flow = price[1] * q
           ELSE t.qty = q /\ t.cash_flow = -(price[1] * q)

\* The filled quantity of a row, 0 when it is not numeric.
FilledQty(r) == IF r.filled_qty = NaN THEN 0 ELSE r.filled_qty[1]

\* The quantity of row k of the file: the filled quantity, or the ordered
\* one in a file that has no Filled column.
QuantityOf(k) ==
    IF "filled_qty" \in raw.columns THEN FilledQty(raw.rows[k]) ELSE OrderedQty

\* The table parse has returned is in ascending order of datetime and qty
\* and cash_flow never have the same sign.
SignsAndOrder ==
    /\ Len(trades) <= Len(raw.rows)
    /\ \A i \in DOMAIN trades : trades[i].qty * trades[i].cash_flow <= 0
    /\ \A i, j \in DOMAIN trades :
          i < j => TimeKey(trades[i].datetime) <= TimeKey(trades[j].datetime)

\* C16 as stated: every row parse returns is made of a row of the order file
\* whose status contains 'fill' and whose timestamp parses; a side beginning
\* with 'sell' gives qty = -filled quantity and cash_flow = +price x
\* quantity, any other side (a missing one too) qty = +filled quantity and
\* cash_flow = -price x quantity; qty and cash_flow never have the same sign;
\* and the rows are in ascending order of datetime.
C16_EventSigns ==
    pc = "parsed" =>
        /\ SignsAndOrder
        /\ \A i \in DOMAIN trades :
              \E k \in DOMAIN raw.rows :
                  /\ raw.rows[k].status \in FillStatuses
                  /\ SignedAs(trades[i], raw.rows[k], QuantityOf(k))

\* C16, amended: the status filter is applied when the order file has a
\* Status column, so the rows returned are those with a timestamp and a
\* price, and with a status that contains 'fill' if the file has a Status
\* column; the quantity is that of the Filled column, or of Total Qty in a
\* file that has no Filled column.
C16_EventSignsByColumns ==
    pc = "parsed" =>
        /\ SignsAndOrder
        /\ Len(trades) =
              Cardinality({k \in DOMAIN raw.rows :
                  /\ "status" \in raw.columns => raw.rows[k].status \in FillStatuses
                  /\ raw.rows[k].filled_time # NaT \/ raw.rows[k].placed_time # NaT
                  /\ raw.rows[k].avg_price # NaN \/ raw.rows[k].price # NaN})
        /\ \A i \in DOMAIN trades :
              \E k \in DOMAIN raw.rows :
                  /\ "status" \in raw.columns => raw.rows[k].status \in FillStatuses
                  /\ SignedAs(trades[i], raw.rows[k], QuantityOf(k))

\* Two rows are returned in the other order than they came in: a sell
\* written with a blank and capitals, filled later than the buy (with no side
\* at all) that follows it in the file.
C16_Witness ==
    /\ pc = "parsed"
    /\ Len(raw.rows) = 2 /\ Len(trades) = 2
    /\ raw.rows[1].side \in SellSides
    /\ raw.rows[2].side = NoText
    /\ SignedAs(trades[1], raw.rows[2], FilledQty(raw.rows[2]))
    /\ SignedAs(trades[2], raw.rows[1], FilledQty(raw.rows[1]))
    /\ raw.rows[1].status \in FillStatuses /\ raw.rows[2].status \in FillStatuses
    /\ trades[1].qty > 0 /\ trades[1].cash_flow < 0
    /\ trades[2].qty < 0 /\ trades[2].cash_flow > 0
    /\ TimeKey(trades[1].datetime) < TimeKey(trades[2].datetime)

====
